---------------------------- MODULE Spec2Model ----------------------------
(***************************************************************************)
(* Model of src/main.py, the ForwardReader plugin: the recursive parser    *)
(* of merged-forward message trees (_extract_content_recursively), the     *)
(* fetch wrapper (_extract_forward_content) and the two event handlers     *)
(* (modify_llm_request, "wake mode"; on_any_message, "auto mode").         *)
(*                                                                         *)
(* Python values are records tagged with their type, [t |-> "str", s |->   *)
(* "..."], [t |-> "list", items |-> <<...>>] and so on; a str is a TLA+    *)
(* string read character by character with SubSeq.  The source's           *)
(* non-ASCII literals are written in ASCII:                                *)
(*     "未知用户"                     ->  "unknown"                        *)
(*     "[图片]"                       ->  "[pic]"                          *)
(*     "[转发消息内容缺失或格式错误]" ->  "[fwd-missing]"                  *)
(*     "请总结一下这个聊天记录"       ->  "summarize"                      *)
(*     "无法从合并转发消息中提取到任何有效内容。" -> "nothing-extracted"   *)
(*     "正在分析聊天记录，请稍候..."  ->  "analyzing"                      *)
(***************************************************************************)
EXTENDS Integers, Sequences, FiniteSets, TLC

(***************************************************************************)
(* Python values                                                           *)
(***************************************************************************)
PyNone == [t |-> "none"]
PyStr(s) == [t |-> "str", s |-> s]
PyInt(n) == [t |-> "int", n |-> n]
PyBool(b) == [t |-> "bool", b |-> b]
PyList(q) == [t |-> "list", items |-> q]
PyDict(d) == [t |-> "dict", map |-> d]
EmptyDict == PyDict(<<>>)

\* Python truthiness, as used by `or`, `if x:` and `not x`.
Truthy(x) ==
    CASE x.t = "none" -> FALSE
      [] x.t = "str" -> x.s # ""
      [] x.t = "int" -> x.n # 0
      [] x.t = "bool" -> x.b
      [] x.t = "list" -> Len(x.items) > 0
      [] x.t = "dict" -> DOMAIN x.map # {}

\* dict.get(key, default)
Get(d, key, default) == IF key \in DOMAIN d.map THEN d.map[key] ELSE default

\* d[key] = val on the mapping of a dict
DictPut(m, key, val) ==
    [k \in (DOMAIN m) \cup {key} |-> IF k = key THEN val ELSE m[k]]

(***************************************************************************)
(* str methods                                                             *)
(***************************************************************************)
\* The character at position i of s, "" past either end.
Ch(s, i) == IF i >= 1 /\ i <= Len(s) THEN SubSeq(s, i, i) ELSE ""

IsSpace(c) == c \in {" ", "\t", "\n", "\r"}

Min(S) == CHOOSE k \in S : \A m \in S : k <= m
Max(S) == CHOOSE k \in S : \A m \in S : m <= k

\* The positions from i on where s has a character that is not whitespace.
NonSpaceFrom(s, i) == {k \in i..Len(s) : ~IsSpace(Ch(s, k))}

\* str.strip()
strip(s) ==
    IF NonSpaceFrom(s, 1) = {} THEN ""
    ELSE SubSeq(s, Min(NonSpaceFrom(s, 1)), Max(NonSpaceFrom(s, 1)))

StartsWithAt(s, i, sub) ==
    /\ i + Len(sub) - 1 <= Len(s)
    /\ SubSeq(s, i, i + Len(sub) - 1) = sub

\* The positions from i on where sub occurs in s.
Occurrences(s, i, sub) == {k \in i..Len(s) : StartsWithAt(s, k, sub)}

\* `sub in s`
Contains(s, sub) == sub = "" \/ Occurrences(s, 1, sub) # {}

\* str.replace(old, new) for a non-empty old: left to right, non-overlapping.
RECURSIVE ReplaceFrom(_, _, _, _)
ReplaceFrom(s, i, old, new) ==
    IF Occurrences(s, i, old) = {} THEN SubSeq(s, i, Len(s))
    ELSE LET k == Min(Occurrences(s, i, old))
         IN  SubSeq(s, i, k - 1) \o new \o ReplaceFrom(s, k + Len(old), old, new)

replace(s, old, new) == ReplaceFrom(s, 1, old, new)

\* "".join(parts)
RECURSIVE Join(_)
Join(parts) == IF parts = <<>> THEN "" ELSE Head(parts) \o Join(Tail(parts))

\* "\n".join(lines)
RECURSIVE JoinLines(_)
JoinLines(lines) ==
    IF lines = <<>> THEN ""
    ELSE IF Len(lines) = 1 THEN Head(lines)
    ELSE Head(lines) \o "\n" \o JoinLines(Tail(lines))

\* "  " * depth
RECURSIVE Indent(_)
Indent(depth) == IF depth <= 0 THEN "" ELSE "  " \o Indent(depth - 1)

(***************************************************************************)
(* json.loads, on the JSON subset the model's strings are written in:      *)
(* arrays, objects, strings without escapes, unsigned integers, the three  *)
(* literals, and whitespace between tokens.  Anything else, and any text   *)
(* after the value, is a JSONDecodeError (ok = FALSE).                     *)
(***************************************************************************)
Digits == {"0", "1", "2", "3", "4", "5", "6", "7", "8", "9"}

DigitVal(c) ==
    CASE c = "0" -> 0 [] c = "1" -> 1 [] c = "2" -> 2 [] c = "3" -> 3 [] c = "4" -> 4
      [] c = "5" -> 5 [] c = "6" -> 6 [] c = "7" -> 7 [] c = "8" -> 8 [] c = "9" -> 9

\* The first position from i on that holds no whitespace (Len(s) + 1 if none).
SkipWs(s, i) == IF NonSpaceFrom(s, i) = {} THEN Max({i, Len(s) + 1}) ELSE Min(NonSpaceFrom(s, i))

\* Position of the quote closing the string whose body starts at i, 0 if none.
ScanString(s, i) ==
    IF Occurrences(s, i, "\"") = {} THEN 0 ELSE Min(Occurrences(s, i, "\""))

\* The digits from i on, with the value n read so far.
RECURSIVE ScanInt(_, _, _)
ScanInt(s, i, n) ==
    IF Ch(s, i) \in Digits THEN ScanInt(s, i + 1, 10 * n + DigitVal(Ch(s, i)))
    ELSE [ok |-> TRUE, val |-> PyInt(n), next |-> i]

ParseFail == [ok |-> FALSE, val |-> PyNone, next |-> 0]
ParseOk(val, next) == [ok |-> TRUE, val |-> val, next |-> next]

RECURSIVE ParseValue(_, _)
RECURSIVE ParseElements(_, _, _)
RECURSIVE ParseMembers(_, _, _)

\* The value that starts at position i, which holds no whitespace.
ParseAt(s, i) ==
    CASE Ch(s, i) = "[" ->
           (IF Ch(s, SkipWs(s, i + 1)) = "]"
            THEN ParseOk(PyList(<<>>), SkipWs(s, i + 1) + 1)
            ELSE ParseElements(s, i + 1, <<>>))
      [] Ch(s, i) = "{" ->
           (IF Ch(s, SkipWs(s, i + 1)) = "}"
            THEN ParseOk(EmptyDict, SkipWs(s, i + 1) + 1)
            ELSE ParseMembers(s, SkipWs(s, i + 1), <<>>))
      [] Ch(s, i) = "\"" ->
           (IF ScanString(s, i + 1) = 0 THEN ParseFail
            ELSE ParseOk(PyStr(SubSeq(s, i + 1, ScanString(s, i + 1) - 1)),
                         ScanString(s, i + 1) + 1))
      [] Ch(s, i) = "0" -> ParseOk(PyInt(0), i + 1)
      [] Ch(s, i) \in Digits \ {"0"} -> ScanInt(s, i, 0)
      [] StartsWithAt(s, i, "null") -> ParseOk(PyNone, i + 4)
      [] StartsWithAt(s, i, "true") -> ParseOk(PyBool(TRUE), i + 4)
      [] StartsWithAt(s, i, "false") -> ParseOk(PyBool(FALSE), i + 5)
      [] OTHER -> ParseFail

ParseValue(s, i0) == ParseAt(s, SkipWs(s, i0))

\* After the element r of an array: j is the position of the next token.
ElementsAfter(s, r, j, acc) ==
    IF ~r.ok THEN ParseFail
    ELSE IF Ch(s, j) = "," THEN ParseElements(s, j + 1, Append(acc, r.val))
    ELSE IF Ch(s, j) = "]" THEN ParseOk(PyList(Append(acc, r.val)), j + 1)
    ELSE ParseFail

ElementsNext(s, r, acc) == ElementsAfter(s, r, IF r.ok THEN SkipWs(s, r.next) ELSE 0, acc)

ParseElements(s, i, acc) == ElementsNext(s, ParseValue(s, i), acc)

\* After the member key: r of an object: j is the position of the next token.
MembersAfter(s, key, r, j, acc) ==
    IF ~r.ok THEN ParseFail
    ELSE IF Ch(s, j) = "," THEN ParseMembers(s, SkipWs(s, j + 1), DictPut(acc, key, r.val))
    ELSE IF Ch(s, j) = "}" THEN ParseOk(PyDict(DictPut(acc, key, r.val)), j + 1)
    ELSE ParseFail

MembersNext(s, key, r, acc) ==
    MembersAfter(s, key, r, IF r.ok THEN SkipWs(s, r.next) ELSE 0, acc)

\* The member whose key starts at position i and ends with the quote at e,
\* with c the position of the token after the key.
MemberAt(s, i, e, c, acc) ==
    IF Ch(s, i) # "\"" \/ e = 0 \/ Ch(s, c) # ":" THEN ParseFail
    ELSE MembersNext(s, SubSeq(s, i + 1, e - 1), ParseValue(s, c + 1), acc)

MemberKey(s, i, e, acc) == MemberAt(s, i, e, IF e = 0 THEN 0 ELSE SkipWs(s, e + 1), acc)

ParseMembers(s, i, acc) == MemberKey(s, i, ScanString(s, i + 1), acc)

Decoded(s, r) ==
    IF r.ok /\ SkipWs(s, r.next) = Len(s) + 1
    THEN [ok |-> TRUE, val |-> r.val]
    ELSE [ok |-> FALSE, val |-> PyNone]

json_loads(s) == Decoded(s, ParseValue(s, 1))

(***************************************************************************)
(* _extract_content_recursively (lines 26-88).                             *)
(*                                                                         *)
(* The two accumulators the caller passes in, extracted_texts and          *)
(* image_urls, are the fields texts and images of acc.  Beside them acc    *)
(* carries two history fields the code does not have: tsrc[k] is the path  *)
(* of the node whose line is texts[k], and isrc[k] the path of the segment *)
(* whose URL is images[k].  A path <<n1, s1, n2, s2, ...>> alternates      *)
(* positions in a node list and positions in a node's segment list.  The    *)
(* field raised says that an exception (an AttributeError of .get on a     *)
(* value that is no dict, a TypeError of join) has left the parser.        *)
(***************************************************************************)
EmptyAcc == [texts |-> <<>>, images |-> <<>>, tsrc |-> <<>>, isrc |-> <<>>, raised |-> FALSE]

\* An exception leaves the parser: the lists stay as they are, nothing more is done.
Raise(acc) == [acc EXCEPT !.raised = TRUE]

UnknownUser == "unknown"
PicPlaceholder == "[pic]"
FwdMissingPlaceholder == "[fwd-missing]"

\* line 34
sender_name(message_node) ==
    Get(Get(message_node, "sender", EmptyDict), "nickname", PyStr(UnknownUser)).s

\* line 35
raw_content(message_node) ==
    LET m == Get(message_node, "message", PyNone)
    IN  IF Truthy(m) THEN m ELSE Get(message_node, "content", PyList(<<>>))

TextSegment(text) == PyDict([type |-> PyStr("text"), data |-> PyDict([text |-> PyStr(text)])])

\* lines 40-46: a decoded non-list leaves content_chain = [] (line 42 has no else);
\* only the except branch falls back to one text segment.
decoded_chain(raw, r) ==
    IF r.ok
    THEN (IF r.val.t = "list" THEN r.val.items ELSE <<>>)
    ELSE <<TextSegment(raw.s)>>

\* lines 38-48
content_chain(raw) ==
    IF raw.t = "str" THEN decoded_chain(raw, json_loads(raw.s))
    ELSE IF raw.t = "list" THEN raw.items
    ELSE <<>>

\* A parser that never detects the pure forward container.
has_only_forward_never(chain) == FALSE

\* lines 57-58
has_only_forward(chain) ==
    Len(chain) = 1 /\ Get(chain[1], "type", PyNone) = PyStr("forward")

\* A parser that puts a new URL in front of the list.
PrependImage(acc, url, path) ==
    [acc EXCEPT !.images = <<url>> \o @, !.isrc = <<path>> \o @]

\* line 72: image_urls.append(url)
AppendImage(acc, url, path) ==
    [acc EXCEPT !.images = Append(@, url), !.isrc = Append(@, path)]

\* A parser that puts a new line in front of the transcript.
PrependLine(acc, line, path) ==
    [acc EXCEPT !.texts = <<line>> \o @, !.tsrc = <<path>> \o @]

\* line 88: extracted_texts.append(f"{indent}{sender_name}: {full_node_text}")
AppendLine(acc, line, path) ==
    [acc EXCEPT !.texts = Append(@, line), !.tsrc = Append(@, path)]

\* line 88, the f-string
FormatLine(depth, name, text) == Indent(depth) \o name \o ": " \o text

\* line 85: "".join(node_text_parts)
join(parts) == Join([i \in 1..Len(parts) |-> parts[i].s])

RECURSIVE extract_content_recursively(_, _, _, _)
RECURSIVE NodesFrom(_, _, _, _, _)
RECURSIVE SegmentsFrom(_, _, _, _, _, _)

\* lines 61-81: the segment at position k, with node_text_parts = parts so far.
segment_step(segment, k, parts, acc, depth, path) ==
    IF segment.t # "dict" THEN [parts |-> parts, acc |-> acc]
    ELSE LET seg_type == Get(segment, "type", PyNone)
             seg_data == Get(segment, "data", EmptyDict)
         IN  CASE seg_type \in {PyStr("text"), PyStr("image"), PyStr("forward")}
                    /\ seg_data.t # "dict" ->
                    [parts |-> parts, acc |-> Raise(acc)]
               [] seg_type = PyStr("text") /\ seg_data.t = "dict" ->
                    [parts |-> IF Truthy(Get(seg_data, "text", PyStr("")))
                               THEN Append(parts, Get(seg_data, "text", PyStr("")))
                               ELSE parts,
                     acc |-> acc]
               [] seg_type = PyStr("image") /\ seg_data.t = "dict" ->
                    (IF Truthy(Get(seg_data, "url", PyNone))
                     THEN [parts |-> Append(parts, PyStr(PicPlaceholder)),
                           acc |-> AppendImage(acc, Get(seg_data, "url", PyNone).s, path \o <<k>>)]
                     ELSE [parts |-> parts, acc |-> acc])
               [] seg_type = PyStr("forward") /\ seg_data.t = "dict" ->
                    (IF Get(seg_data, "content", PyNone).t = "list"
                     THEN [parts |-> parts,
                           acc |-> extract_content_recursively(
                                       Get(seg_data, "content", PyNone).items, acc, depth + 1,
                                       path \o <<k>>)]
                     ELSE [parts |-> Append(parts, PyStr(FwdMissingPlaceholder)), acc |-> acc])
               [] OTHER -> [parts |-> parts, acc |-> acc]

\* line 60: on to the segment after position k, which left r.
segments_next(chain, k, r, depth, path) ==
    SegmentsFrom(chain, k + 1, r.parts, r.acc, depth, path)

\* lines 60-81: the segments chain[k..], with node_text_parts = parts so far.
SegmentsFrom(chain, k, parts, acc, depth, path) ==
    IF k > Len(chain) \/ acc.raised THEN [parts |-> parts, acc |-> acc]
    ELSE segments_next(chain, k, segment_step(chain[k], k, parts, acc, depth, path), depth, path)

\* lines 83-88: the node's line, once its segments left node_text_parts = parts.
\* join raises TypeError on a part that is no str.
node_line(message_node, chain, parts, acc, depth, path) ==
    IF \E i \in 1..Len(parts) : parts[i].t # "str" THEN Raise(acc)
    ELSE IF strip(join(parts)) # "" /\ ~has_only_forward(chain)
    THEN AppendLine(acc, FormatLine(depth, sender_name(message_node), strip(join(parts))), path)
    ELSE acc

\* lines 60-88, with segments the result of the loop over content_chain.
node_segments(message_node, chain, segments, depth, path) ==
    IF segments.acc.raised THEN segments.acc
    ELSE node_line(message_node, chain, segments.parts, segments.acc, depth, path)

\* line 57 calls .get on the only segment, whatever it is.
chain_raises(chain) == Len(chain) = 1 /\ chain[1].t # "dict"

\* line 34 calls .get on the node and on its sender.
node_raises(message_node) ==
    message_node.t # "dict" \/ Get(message_node, "sender", EmptyDict).t # "dict"

\* lines 50-88
node_chain(message_node, chain, acc, depth, path) ==
    IF chain_raises(chain) THEN Raise(acc)
    ELSE node_segments(message_node, chain,
             SegmentsFrom(chain, 1, <<>>, acc, depth, path), depth, path)

\* lines 34-88: one iteration of the loop over message_nodes.
ProcessNode(message_node, acc, depth, path) ==
    IF node_raises(message_node) THEN Raise(acc)
    ELSE node_chain(message_node, content_chain(raw_content(message_node)), acc, depth, path)

\* line 33: for message_node in message_nodes, from position i on.
NodesFrom(message_nodes, i, acc, depth, prefix) ==
    IF i > Len(message_nodes) \/ acc.raised THEN acc
    ELSE NodesFrom(message_nodes, i + 1,
             ProcessNode(message_nodes[i], acc, depth, prefix \o <<i>>), depth, prefix)

\* prefix is the path of the forward segment that holds message_nodes (<<>> at the root).
extract_content_recursively(message_nodes, acc, depth, prefix) ==
    NodesFrom(message_nodes, 1, acc, depth, prefix)

(***************************************************************************)
(* Inputs of the parser: the node lists get_forward_msg may answer with.   *)
(***************************************************************************)
Seg(type, data) == PyDict([type |-> PyStr(type), data |-> PyDict(data)])
ForwardSeg(nodes) == Seg("forward", [content |-> PyList(nodes)])
NodeOf(name, content) ==
    PyDict([sender |-> PyDict([nickname |-> PyStr(name)]), message |-> content])

MaxWeight == 7
MaxDepth == 2
MaxWideSegs == 2

\* The segments without nested nodes that the tree family is built from.
LeafSegs == {Seg("text", [text |-> PyStr("hi")]), Seg("image", [url |-> PyStr("u1")])}

RECURSIVE NodeListsW(_, _)
RECURSIVE SegListsW(_, _)

\* The segments of weight w that nest at most d levels of forward.
SegsW(w, d) ==
    (IF w = 1 THEN LeafSegs ELSE {})
      \cup (IF d > 0 THEN {ForwardSeg(nl) : nl \in NodeListsW(w - 1, d - 1)} ELSE {})

SegListsW(w, d) ==
    IF w = 0 THEN {<<>>}
    ELSE UNION {{<<sg>> \o rest : sg \in SegsW(a, d), rest \in SegListsW(w - a, d)} :
                a \in 1..w}

\* A node weighs one more than its segments, a forward segment one more than its nodes.
NodesW(w, d) == {NodeOf("A", PyList(q)) : q \in SegListsW(w - 1, d)}

NodeListsW(w, d) ==
    IF w = 0 THEN {<<>>}
    ELSE UNION {{<<n>> \o rest : n \in NodesW(a, d), rest \in NodeListsW(w - a, d)} :
                a \in 1..w}

\* Every node list of at most MaxWeight nodes and segments, nested at most MaxDepth deep.
TreeInputs == UNION {NodeListsW(w, MaxDepth) : w \in 0..MaxWeight}

\* One node of every content shape the parser tells apart.
PlainNode == NodeOf("B", PyList(<<Seg("text", [text |-> PyStr("yo")])>>))

WideSegs ==
    LeafSegs \cup
    { Seg("text", [text |-> PyStr(" ")]),
      Seg("text", [text |-> PyStr("")]),
      Seg("image", <<>>),
      Seg("image", [url |-> PyStr("")]),
      Seg("face", [id |-> PyStr("1")]),
      Seg("forward", [content |-> PyStr("oops")]),
      Seg("forward", [content |-> PyDict([a |-> PyInt(1)])]),
      Seg("forward", [id |-> PyStr("F9")]),
      ForwardSeg(<<>>),
      ForwardSeg(<<PlainNode>>) }

RECURSIVE SeqsUpTo(_, _)
SeqsUpTo(S, n) ==
    IF n = 0 THEN {<<>>}
    ELSE SeqsUpTo(S, n - 1) \cup {Append(q, e) : q \in {r \in SeqsUpTo(S, n - 1) : Len(r) = n - 1}, e \in S}

StrContents ==
    { "hello", " hi there ", " ", "123", "0", "\"quoted\"", "{\"a\":1}", "null", "true",
      "[]", "[1]", "[1,2]", "[1,", "01",
      "[{\"type\":\"text\",\"data\":{\"text\":\"hello\"}}]",
      "[{\"type\":\"forward\",\"data\":{\"content\":\"oops\"}}]",
      " [ {\"type\" : \"image\", \"data\" : {\"url\" : \"u2\"}}, {\"type\":\"text\",\"data\":{\"text\":\"x\"}} ] " }

WideContents ==
    {PyList(q) : q \in SeqsUpTo(WideSegs, MaxWideSegs)} \cup {PyStr(str) : str \in StrContents}

WideNodes ==
    {NodeOf("A", c) : c \in WideContents}
      \cup {PyDict([message |-> c]) : c \in WideContents}
      \cup {PyDict([sender |-> EmptyDict, content |-> c]) : c \in WideContents}
      \cup {PyDict([sender |-> PyDict([nickname |-> PyStr("C")]), message |-> PyStr(""), content |-> c]) :
              c \in WideContents}
      \cup {PyDict([sender |-> PyDict([nickname |-> PyStr("D")])])}

\* A wide node alone, after a sibling, and inside a pure forward container.
WideInputs ==
    {<<n>> : n \in WideNodes}
      \cup {<<PlainNode, n>> : n \in WideNodes}
      \cup {<<NodeOf("A", PyList(<<ForwardSeg(<<n>>)>>))>> : n \in WideNodes}

ParserInputs == TreeInputs \cup WideInputs

(***************************************************************************)
(* _extract_forward_content (lines 90-112).  An answer of the platform     *)
(* API is [raised |-> TRUE] for an exception of call_action, or the value  *)
(* the call returns.                                                       *)
(***************************************************************************)
Raised == [raised |-> TRUE, val |-> PyNone]
Returned(val) == [raised |-> FALSE, val |-> val]

NoContent == [texts |-> <<>>, images |-> <<>>, raised |-> FALSE]

\* Lines 110-112: the two lists that are returned, or the exception of the parser.
content_of(acc) ==
    IF acc.raised THEN [texts |-> <<>>, images |-> <<>>, raised |-> TRUE]
    ELSE [texts |-> acc.texts, images |-> acc.images, raised |-> FALSE]

\* Lines 95-112, from the answer of get_forward_msg on.
extract_forward_content(answer) ==
    IF answer.raised THEN NoContent
    ELSE IF ~Truthy(answer.val) \/ "messages" \notin DOMAIN answer.val.map THEN NoContent
    ELSE content_of(extract_content_recursively(answer.val.map["messages"].items, EmptyAcc, 0, <<>>))

BlankNode == NodeOf("B", PyList(<<Seg("text", [text |-> PyStr(" ")])>>))
PictureNode ==
    NodeOf("C", PyList(<<Seg("text", [text |-> PyStr("see ")]), Seg("image", [url |-> PyStr("u1")])>>))

\* What get_forward_msg may answer.
ForwardAnswers ==
    { Raised,
      Returned(PyNone),
      Returned(EmptyDict),
      Returned(PyDict([retcode |-> PyInt(1)])),
      Returned(PyDict([messages |-> PyList(<<>>)])),
      Returned(PyDict([messages |-> PyList(<<BlankNode>>)])),
      Returned(PyDict([messages |-> PyList(<<PlainNode>>)])),
      Returned(PyDict([messages |-> PyList(<<PictureNode, PlainNode>>)])),
      Returned(PyDict([messages |-> PyList(<<PlainNode, NodeOf("D", PyStr("[1]"))>>)])),
      Returned(PyDict([messages |->
          PyList(<<NodeOf("A", PyList(<<ForwardSeg(<<PictureNode>>)>>)), PlainNode>>)])) }

(***************************************************************************)
(* The scan of a replied-to message (lines 143-167 in modify_llm_request,  *)
(* lines 248-273 in on_any_message).                                       *)
(***************************************************************************)
MultiMsgApp == "com.tencent.multimsg"
DefaultQuestion == "summarize"

\* `x == 1` in Python: the int 1, and True
EqualsOne(x) == x = PyInt(1) \/ x = PyBool(TRUE)

\* Lines 159-163 (264-268): the news items from position k on.  An item that is
\* no dict, or a text that is no str, raises AttributeError.
RECURSIVE NewsFrom(_, _, _)
NewsFrom(news_items, k, texts) ==
    IF k > Len(news_items) THEN [raised |-> FALSE, texts |-> texts]
    ELSE LET item == news_items[k]
         IN  IF item.t # "dict" THEN [raised |-> TRUE, texts |-> texts]
             ELSE LET text_content == Get(item, "text", PyNone)
                  IN  IF ~Truthy(text_content) THEN NewsFrom(news_items, k + 1, texts)
                      ELSE IF text_content.t # "str" THEN [raised |-> TRUE, texts |-> texts]
                      ELSE LET clean_text ==
                                   strip(replace(strip(text_content.s), PicPlaceholder, ""))
                           IN  NewsFrom(news_items, k + 1,
                                   IF clean_text # "" THEN Append(texts, clean_text) ELSE texts)

\* The ways one "json" segment ends (lines 152-167, 257-273): "break" (line 164),
\* "next" (the loop goes on: no card, or the inner except caught the error) or
\* "raise" (an exception the inner except does not name leaves the loop).
CardNext(texts) == [status |-> "next", texts |-> texts]
CardRaise(texts) == [status |-> "raise", texts |-> texts]
CardBreak(texts) == [status |-> "break", texts |-> texts]

\* Lines 162-164 (267-269), after the loop over the news items.
card_news(n) ==
    IF n.raised THEN CardRaise(n.texts)
    ELSE IF n.texts # <<>> THEN CardBreak(n.texts)
    ELSE CardNext(n.texts)

\* Lines 157-164 (262-269): inner_json.get on a value that is no dict raises
\* AttributeError, which the except of line 165 (270) does not name.
card_json(inner_json, texts) ==
    IF inner_json.t # "dict" THEN CardRaise(texts)
    ELSE IF Get(inner_json, "app", PyNone) # PyStr(MultiMsgApp) THEN CardNext(texts)
    ELSE IF Get(inner_json, "config", EmptyDict).t # "dict" THEN CardRaise(texts)
    ELSE IF ~EqualsOne(Get(Get(inner_json, "config", EmptyDict), "forward", PyNone))
         THEN CardNext(texts)
    ELSE LET meta == Get(inner_json, "meta", EmptyDict)
             detail == IF meta.t = "dict" THEN Get(meta, "detail", EmptyDict) ELSE PyNone
             news_items == IF detail.t = "dict" THEN Get(detail, "news", PyList(<<>>))
                           ELSE PyNone
         IN  IF meta.t # "dict" \/ detail.t # "dict" THEN CardRaise(texts)
             ELSE IF news_items.t \in {"none", "int", "bool"} THEN CardNext(texts)
             ELSE IF news_items.t # "list"
                  THEN (IF Truthy(news_items) THEN CardRaise(texts) ELSE CardNext(texts))
             ELSE card_news(NewsFrom(news_items.items, 1, texts))

\* Lines 156-166 (261-271): r is what json.loads made of the payload; a
\* JSONDecodeError is caught by the inner except.
card_decoded(r, texts) == IF ~r.ok THEN CardNext(texts) ELSE card_json(r.val, texts)

\* Lines 153-156 (258-261)
card_data(inner_data_str, texts) ==
    IF ~Truthy(inner_data_str) THEN CardNext(texts)
    ELSE IF inner_data_str.t # "str" THEN CardRaise(texts)
    ELSE card_decoded(json_loads(replace(inner_data_str.s, "&#44;", ",")), texts)

\* Lines 152-167 (257-273): one "json" segment.
card_segment(segment, texts) ==
    IF Get(segment, "data", EmptyDict).t # "dict" THEN CardRaise(texts)
    ELSE card_data(Get(Get(segment, "data", EmptyDict), "data", PyNone), texts)

RECURSIVE scan_reply_wake(_, _, _, _)
RECURSIVE scan_reply_auto(_, _, _, _, _)

\* Lines 152-167, after the json segment at position k ended as c.
after_card_wake(chain, k, forward_id, c) ==
    IF c.status = "next" THEN scan_reply_wake(chain, k + 1, forward_id, c.texts)
    ELSE [forward_id |-> forward_id, json_extracted_texts |-> c.texts]

\* Lines 144-167: the loop of modify_llm_request over the replied-to message's
\* segments from position k on.  An exception ends the loop in the handler of
\* line 169, with what was found so far.
scan_reply_wake(chain, k, forward_id, texts) ==
    IF k > Len(chain) \/ chain[k].t # "dict"
    THEN [forward_id |-> forward_id, json_extracted_texts |-> texts]
    ELSE IF Get(chain[k], "type", PyNone) = PyStr("forward")
    THEN (IF Get(chain[k], "data", EmptyDict).t # "dict"
          THEN [forward_id |-> forward_id, json_extracted_texts |-> texts]
          ELSE IF Truthy(Get(Get(chain[k], "data", EmptyDict), "id", PyNone))
          THEN [forward_id |-> Get(Get(chain[k], "data", EmptyDict), "id", PyNone),
                json_extracted_texts |-> texts]
          ELSE scan_reply_wake(chain, k + 1,
                   Get(Get(chain[k], "data", EmptyDict), "id", PyNone), texts))
    ELSE IF Get(chain[k], "type", PyNone) = PyStr("json")
    THEN after_card_wake(chain, k, forward_id, card_segment(chain[k], texts))
    ELSE scan_reply_wake(chain, k + 1, forward_id, texts)

\* Lines 254 and 270: user_query = user_query or the default question
asked(user_query) == IF user_query = "" THEN DefaultQuestion ELSE user_query

\* Lines 257-273, after the json segment at position k ended as c.
after_card_auto(chain, k, forward_id, c, user_query) ==
    CASE c.status = "next" -> scan_reply_auto(chain, k + 1, forward_id, c.texts, user_query)
      [] c.status = "break" ->
           [forward_id |-> forward_id, json_extracted_texts |-> c.texts,
            user_query |-> asked(user_query)]
      [] c.status = "raise" ->
           [forward_id |-> forward_id, json_extracted_texts |-> c.texts,
            user_query |-> user_query]

\* Lines 249-273: the same loop in on_any_message, which also fills in the
\* default question when it finds something (lines 254, 270).
scan_reply_auto(chain, k, forward_id, texts, user_query) ==
    IF k > Len(chain) \/ chain[k].t # "dict"
    THEN [forward_id |-> forward_id, json_extracted_texts |-> texts, user_query |-> user_query]
    ELSE IF Get(chain[k], "type", PyNone) = PyStr("forward")
    THEN (IF Get(chain[k], "data", EmptyDict).t # "dict"
          THEN [forward_id |-> forward_id, json_extracted_texts |-> texts,
                user_query |-> user_query]
          ELSE IF Truthy(Get(Get(chain[k], "data", EmptyDict), "id", PyNone))
          THEN [forward_id |-> Get(Get(chain[k], "data", EmptyDict), "id", PyNone),
                json_extracted_texts |-> texts, user_query |-> asked(user_query)]
          ELSE scan_reply_auto(chain, k + 1,
                   Get(Get(chain[k], "data", EmptyDict), "id", PyNone), texts, user_query))
    ELSE IF Get(chain[k], "type", PyNone) = PyStr("json")
    THEN after_card_auto(chain, k, forward_id, card_segment(chain[k], texts), user_query)
    ELSE scan_reply_auto(chain, k + 1, forward_id, texts, user_query)

\* Lines 140-143 (246-248): the segment list of the answer of get_msg, <<>> when
\* the call raised or the answer has no list under 'message'.
reply_chain(answer) ==
    IF answer.raised THEN <<>>
    ELSE LET original_msg == answer.val
         IN  IF /\ Truthy(original_msg)
                /\ original_msg.t = "dict"
                /\ "message" \in DOMAIN original_msg.map
                /\ original_msg.map["message"].t = "list"
             THEN original_msg.map["message"].items
             ELSE <<>>

(***************************************************************************)
(* The handlers' own steps                                                 *)
(***************************************************************************)
\* Lines 128-133: the loop of modify_llm_request over the event's components.
RECURSIVE scan_message_wake(_, _, _, _)
scan_message_wake(message, k, forward_id, reply_seg) ==
    IF k > Len(message) THEN [forward_id |-> forward_id, reply_seg |-> reply_seg]
    ELSE IF message[k].kind = "Forward"
         THEN [forward_id |-> PyStr(message[k].id), reply_seg |-> reply_seg]
    ELSE IF message[k].kind = "Reply"
         THEN scan_message_wake(message, k + 1, forward_id, PyStr(message[k].id))
    ELSE scan_message_wake(message, k + 1, forward_id, reply_seg)

\* Lines 231-240: the loop of on_any_message over the event's components.
RECURSIVE scan_message_auto(_, _, _, _, _, _)
scan_message_auto(message, k, forward_id, reply_seg, user_query, enable_direct_analysis) ==
    IF k > Len(message)
    THEN [forward_id |-> forward_id, reply_seg |-> reply_seg, user_query |-> user_query]
    ELSE IF message[k].kind = "Forward" /\ enable_direct_analysis
         THEN IF message[k].id # ""
              THEN [forward_id |-> PyStr(message[k].id), reply_seg |-> reply_seg,
                    user_query |-> asked(user_query)]
              ELSE scan_message_auto(message, k + 1, PyStr(message[k].id), reply_seg,
                       asked(user_query), enable_direct_analysis)
    ELSE IF message[k].kind = "Reply"
         THEN scan_message_auto(message, k + 1, forward_id, PyStr(message[k].id),
                  user_query, enable_direct_analysis)
    ELSE scan_message_auto(message, k + 1, forward_id, reply_seg, user_query,
             enable_direct_analysis)

\* Line 120: modify_llm_request goes on past its first return.
modify_llm_request_proceeds(ev) == ev.is_aiocqhttp /\ ev.is_at_or_wake_command

\* An on_any_message that does not leave wake-up messages to the other handler.
on_any_message_proceeds_awake(ev, cfg) ==
    /\ ev.is_aiocqhttp
    /\ cfg.enable_direct_analysis \/ cfg.enable_reply_analysis

\* Lines 212-223: on_any_message goes on past its three returns.
on_any_message_proceeds(ev, cfg) ==
    /\ ev.is_aiocqhttp
    /\ ~ev.is_at_or_wake_command
    /\ cfg.enable_direct_analysis \/ cfg.enable_reply_analysis

ContextHead == "\n\n[answer from these chat records]\n--- begin ---\n"
ContextTail == "\n--- end ---"
NothingExtracted == "nothing-extracted"
Analyzing == "analyzing"
AnalysisFailed == "analysis-failed"

\* A wake mode that injects whatever it extracted, even nothing.
inject_always(request, extracted_texts, image_urls) ==
    [prompt |-> (IF strip(request.prompt) = "" THEN DefaultQuestion ELSE strip(request.prompt))
                    \o ContextHead \o JoinLines(extracted_texts) \o ContextTail,
     image_urls |-> request.image_urls \o image_urls]

\* Lines 183-203: req after modify_llm_request has the content.
inject(request, extracted_texts, image_urls) ==
    IF extracted_texts = <<>> /\ image_urls = <<>> THEN request
    ELSE [prompt |-> (IF strip(request.prompt) = "" THEN DefaultQuestion
                      ELSE strip(request.prompt))
                         \o ContextHead \o JoinLines(extracted_texts) \o ContextTail,
          image_urls |-> request.image_urls \o image_urls]

\* Lines 295-302: the prompt on_any_message sends to the LLM.
final_prompt(user_query, extracted_texts) ==
    "question: '" \o user_query \o "'" \o ContextHead \o JoinLines(extracted_texts)
        \o ContextTail

(***************************************************************************)
(* Inputs of the handlers                                                  *)
(***************************************************************************)
MaxComponents == 2
MaxReplySegs == 2

\* Comp.Plain, Comp.Forward and Comp.Reply of event.message_obj.message
Components ==
    { [kind |-> "Plain", id |-> ""], [kind |-> "Forward", id |-> "F1"],
      [kind |-> "Forward", id |-> ""], [kind |-> "Reply", id |-> "R1"] }

Events ==
    [ is_aiocqhttp : BOOLEAN,
      is_at_or_wake_command : BOOLEAN,
      message : SeqsUpTo(Components, MaxComponents),
      message_str : {"", " why "} ]

Configs == [enable_direct_analysis : BOOLEAN, enable_reply_analysis : BOOLEAN]

JsonSeg(payload) == Seg("json", [data |-> PyStr(payload)])

\* What the "data" of a json segment may hold.
CardPayloads ==
    { "oops",
      "[1]",
      "{\"a\":1}",
      "{\"app\":\"com.tencent.multimsg\",\"config\":{\"forward\":0}}",
      "{\"app\":\"com.tencent.multimsg\",\"config\":1}",
      "{\"app\":\"com.tencent.multimsg\"&#44;\"config\":{\"forward\":1}&#44;\"meta\":{\"detail\":{\"news\":[{\"text\":\" foo [pic]\"}&#44;{\"text\":\"\"}]}}}",
      "{\"app\":\"com.tencent.multimsg\",\"config\":{\"forward\":1},\"meta\":{\"detail\":{\"news\":[{\"text\":\"[pic]\"}]}}}" }

ReplySegs ==
    { Seg("text", [text |-> PyStr("hi")]),
      Seg("forward", [id |-> PyStr("F2")]),
      Seg("forward", <<>>) }
      \cup {JsonSeg(payload) : payload \in CardPayloads}

\* What get_msg may answer.
MsgAnswers ==
    { Raised, Returned(PyNone), Returned(PyDict([retcode |-> PyInt(1)])),
      Returned(PyDict([message |-> PyStr("hi")])) }
      \cup {Returned(PyDict([message |-> PyList(q)])) : q \in SeqsUpTo(ReplySegs, MaxReplySegs)}

(***************************************************************************)
(* State                                                                   *)
(***************************************************************************)
VARIABLES
    message_nodes,   \* the parser run: the root node list handed to the parser
    parse_pc,        \* the parser run: "call" before, "done" after
    parsed,          \* the parser run: the accumulators after the call
    event,           \* the chat event both handlers are called with
    config,          \* self.enable_direct_analysis, self.enable_reply_analysis
    req,             \* the ProviderRequest modify_llm_request is called with
    wake,            \* modify_llm_request: its position and locals
    auto,            \* on_any_message: its position and locals
    api_calls,       \* the call_action calls made so far, with their caller
    sent,            \* what event.send has delivered
    results,         \* what on_any_message has yielded
    stopped,         \* event.stop_event() was called
    calls,           \* the concurrent _extract_forward_content calls: position and locals
    heap,            \* the list objects of the concurrent calls, by identity
    last,            \* the concurrent call that took the latest step of a walk
    switches         \* how often a walk step followed a step of the other call's walk

parserVars == <<message_nodes, parse_pc, parsed>>
handlerVars == <<event, config, req, wake, auto, api_calls, sent, results, stopped>>
concVars == <<calls, heap, last, switches>>
vars == <<parserVars, handlerVars, concVars>>

NoEvent == [is_aiocqhttp |-> FALSE, is_at_or_wake_command |-> FALSE, message |-> <<>>,
            message_str |-> ""]

\* The locals of a handler at its entry (lines 123-125, 226-229); raised says
\* that an exception left _extract_forward_content.
EntryFrame ==
    [ pc |-> "start", forward_id |-> PyNone, reply_seg |-> PyNone, user_query |-> "",
      json_extracted_texts |-> <<>>, original_msg |-> Returned(PyNone),
      forward_data |-> Returned(PyNone), extracted_texts |-> <<>>, image_urls |-> <<>>,
      raised |-> FALSE ]

ParserIdle == message_nodes = <<>> /\ parse_pc = "idle" /\ parsed = EmptyAcc

HandlersIdle ==
    /\ event = NoEvent
    /\ config = [enable_direct_analysis |-> FALSE, enable_reply_analysis |-> FALSE]
    /\ req = [prompt |-> "", image_urls |-> <<>>]
    /\ wake = [EntryFrame EXCEPT !.pc = "idle"]
    /\ auto = [EntryFrame EXCEPT !.pc = "idle"]
    /\ api_calls = <<>>
    /\ sent = <<>>
    /\ results = <<>>
    /\ stopped = FALSE

Invocations == {1, 2}

\* The locals of one _extract_forward_content call: lists is the identity of
\* the list objects extracted_texts and image_urls are bound to, stack the
\* activations of _extract_content_recursively, innermost last.
IdleCall ==
    [pc |-> "idle", lists |-> 0, answer |-> Returned(PyNone), stack |-> <<>>,
     result |-> NoContent]

ConcIdle ==
    /\ calls = [p \in Invocations |-> IdleCall]
    /\ heap = [id \in Invocations |-> EmptyAcc]
    /\ last = 0
    /\ switches = 0

(***************************************************************************)
(* The parser run alone: line 110, on every input.                         *)
(***************************************************************************)
InitExtract ==
    /\ message_nodes \in ParserInputs
    /\ parse_pc = "call"
    /\ parsed = EmptyAcc
    /\ HandlersIdle
    /\ ConcIdle

ExtractCall ==
    /\ parse_pc = "call"
    /\ parsed' = extract_content_recursively(message_nodes, EmptyAcc, 0, <<>>)
    /\ parse_pc' = "done"
    /\ UNCHANGED <<message_nodes, handlerVars, concVars>>

NextExtract == ExtractCall

SpecExtract == InitExtract /\ [][NextExtract]_vars

(***************************************************************************)
(* The two handlers on one event.  Each runs from its entry to its return, *)
(* giving way at its awaits (get_msg, get_forward_msg, event.send) and at  *)
(* its yield of the LLM request.                                           *)
(***************************************************************************)
\* The request the framework built for the event, before any hook ran.
InitialReq(ev) == [prompt |-> ev.message_str, image_urls |-> <<>>]

Init ==
    /\ ParserIdle
    /\ event \in Events
    /\ config \in Configs
    /\ req = InitialReq(event)
    /\ wake = EntryFrame
    /\ auto = EntryFrame
    /\ api_calls = <<>>
    /\ sent = <<>>
    /\ results = <<>>
    /\ stopped = FALSE
    /\ ConcIdle

Call(by, action, id) == [by |-> by, action |-> action, id |-> id]

\* Lines 172-176 once the scans are over: fetch the forward, or use the card's texts.
WakeContinue(frame) ==
    IF Truthy(frame.forward_id)
    THEN /\ wake' = [frame EXCEPT !.pc = "get_forward_msg"]
         /\ api_calls' = Append(api_calls, Call("wake", "get_forward_msg", frame.forward_id))
         /\ UNCHANGED req
    ELSE /\ wake' = [frame EXCEPT !.pc = "done",
                                  !.extracted_texts = frame.json_extracted_texts]
         /\ req' = IF frame.json_extracted_texts # <<>>
                   THEN inject(req, frame.json_extracted_texts, <<>>)
                   ELSE req
         /\ UNCHANGED api_calls

\* Lines 135-138: the reply is looked up when no forward was found in the message.
WakeScanned(frame) ==
    IF ~Truthy(frame.forward_id) /\ Truthy(frame.reply_seg)
    THEN /\ wake' = [frame EXCEPT !.pc = "get_msg"]
         /\ api_calls' = Append(api_calls, Call("wake", "get_msg", frame.reply_seg))
         /\ UNCHANGED req
    ELSE WakeContinue(frame)

\* The locals after the loop of lines 128-133.
wake_scanned(frame, found) ==
    [frame EXCEPT !.forward_id = found.forward_id, !.reply_seg = found.reply_seg]

\* Lines 120-138: from the entry to the first await or the return.
WakeStart ==
    /\ wake.pc = "start"
    /\ IF ~modify_llm_request_proceeds(event)
       THEN /\ wake' = [wake EXCEPT !.pc = "done"]
            /\ UNCHANGED <<req, api_calls>>
       ELSE WakeScanned(wake_scanned(wake, scan_message_wake(event.message, 1, PyNone, PyNone)))
    /\ UNCHANGED <<parserVars, concVars, event, config, auto, sent, results, stopped>>

\* The locals after the loop of lines 144-167.
wake_replied(frame, answer, found) ==
    [frame EXCEPT !.original_msg = answer,
                  !.forward_id = found.forward_id,
                  !.json_extracted_texts = found.json_extracted_texts]

\* Lines 138-176: get_msg answers; the replied-to message is scanned.
WakeGetMsgReturn ==
    /\ wake.pc = "get_msg"
    /\ \E answer \in MsgAnswers :
           WakeContinue(wake_replied(wake, answer,
               scan_reply_wake(reply_chain(answer), 1, wake.forward_id,
                   wake.json_extracted_texts)))
    /\ UNCHANGED <<parserVars, concVars, event, config, auto, sent, results, stopped>>

\* Lines 176-203, with content what _extract_forward_content returned.  Its
\* exception is no ValueError (line 179) and leaves the handler.
WakeContent(answer, content) ==
    /\ wake' = [wake EXCEPT !.pc = "done", !.forward_data = answer,
                            !.extracted_texts = content.texts,
                            !.image_urls = content.images,
                            !.raised = content.raised]
    /\ req' = IF content.raised THEN req ELSE inject(req, content.texts, content.images)

\* Lines 176-205: get_forward_msg answers; the content is parsed and injected.
WakeForwardReturn ==
    /\ wake.pc = "get_forward_msg"
    /\ \E answer \in ForwardAnswers : WakeContent(answer, extract_forward_content(answer))
    /\ UNCHANGED <<parserVars, concVars, event, config, auto, api_calls, sent, results, stopped>>

PlainResult(text) == [kind |-> "plain_result", text |-> text, image_urls |-> <<>>]
RequestLlm(prompt, image_urls) ==
    [kind |-> "request_llm", text |-> prompt, image_urls |-> image_urls]

\* Lines 287-292 once the content is there: the notice and the return, or the
\* await of event.send; lines 312-314 when the extraction raised.
AutoContent(frame) ==
    IF frame.raised
    THEN /\ auto' = [frame EXCEPT !.pc = "done"]
         /\ results' = Append(results, PlainResult(AnalysisFailed))
    ELSE IF frame.extracted_texts = <<>> /\ frame.image_urls = <<>>
    THEN /\ auto' = [frame EXCEPT !.pc = "done"]
         /\ results' = Append(results, PlainResult(NothingExtracted))
    ELSE /\ auto' = [frame EXCEPT !.pc = "send"]
         /\ UNCHANGED results

\* Lines 278-285 once the scans are over.
AutoContinue(frame) ==
    IF (Truthy(frame.forward_id) \/ frame.json_extracted_texts # <<>>) /\ frame.user_query # ""
    THEN IF Truthy(frame.forward_id)
         THEN /\ auto' = [frame EXCEPT !.pc = "get_forward_msg"]
              /\ api_calls' = Append(api_calls, Call("auto", "get_forward_msg", frame.forward_id))
              /\ UNCHANGED results
         ELSE /\ AutoContent([frame EXCEPT !.extracted_texts = frame.json_extracted_texts])
              /\ UNCHANGED api_calls
    ELSE /\ auto' = [frame EXCEPT !.pc = "done"]
         /\ UNCHANGED <<api_calls, results>>

\* Lines 242-245: the reply is looked up when no forward was found in the message.
AutoScanned(frame) ==
    IF /\ config.enable_reply_analysis
       /\ ~Truthy(frame.forward_id)
       /\ Truthy(frame.reply_seg)
    THEN /\ auto' = [frame EXCEPT !.pc = "get_msg"]
         /\ api_calls' = Append(api_calls, Call("auto", "get_msg", frame.reply_seg))
         /\ UNCHANGED results
    ELSE AutoContinue(frame)

\* The locals after the loop of lines 231-240.
auto_scanned(frame, found) ==
    [frame EXCEPT !.forward_id = found.forward_id,
                  !.reply_seg = found.reply_seg,
                  !.user_query = found.user_query]

\* Lines 212-245: from the entry to the first await or the return.
AutoStart ==
    /\ auto.pc = "start"
    /\ IF ~on_any_message_proceeds(event, config)
       THEN /\ auto' = [auto EXCEPT !.pc = "done"]
            /\ UNCHANGED <<api_calls, results>>
       ELSE AutoScanned(auto_scanned(auto,
                scan_message_auto(event.message, 1, PyNone, PyNone,
                    strip(event.message_str), config.enable_direct_analysis)))
    /\ UNCHANGED <<parserVars, concVars, event, config, req, wake, sent, stopped>>

\* The locals after the loop of lines 249-273.
auto_replied(frame, answer, found) ==
    [frame EXCEPT !.original_msg = answer,
                  !.forward_id = found.forward_id,
                  !.json_extracted_texts = found.json_extracted_texts,
                  !.user_query = found.user_query]

\* Lines 245-285: get_msg answers; the replied-to message is scanned.
AutoGetMsgReturn ==
    /\ auto.pc = "get_msg"
    /\ \E answer \in MsgAnswers :
           AutoContinue(auto_replied(auto, answer,
               scan_reply_auto(reply_chain(answer), 1, auto.forward_id,
                   auto.json_extracted_texts, auto.user_query)))
    /\ UNCHANGED <<parserVars, concVars, event, config, req, wake, sent, stopped>>

\* The locals after line 283.
auto_fetched(frame, answer, content) ==
    [frame EXCEPT !.forward_data = answer,
                  !.extracted_texts = content.texts,
                  !.image_urls = content.images,
                  !.raised = content.raised]

\* Lines 283-292: get_forward_msg answers; the content is parsed.
AutoForwardReturn ==
    /\ auto.pc = "get_forward_msg"
    /\ \E answer \in ForwardAnswers :
           AutoContent(auto_fetched(auto, answer, extract_forward_content(answer)))
    /\ UNCHANGED <<parserVars, concVars, event, config, req, wake, api_calls, sent, stopped>>

\* Lines 292-309 and 312-314: event.send returns and the LLM request is yielded,
\* or event.send raises and the failure is reported.
AutoSendReturn ==
    /\ auto.pc = "send"
    /\ \/ /\ sent' = Append(sent, Analyzing)
          /\ results' = Append(results,
                 RequestLlm(final_prompt(auto.user_query, auto.extracted_texts), auto.image_urls))
          /\ auto' = [auto EXCEPT !.pc = "yield"]
       \/ /\ results' = Append(results, PlainResult(AnalysisFailed))
          /\ auto' = [auto EXCEPT !.pc = "done"]
          /\ UNCHANGED sent
    /\ UNCHANGED <<parserVars, concVars, event, config, req, wake, api_calls, stopped>>

\* Line 310: the generator is resumed after its yield.
AutoResume ==
    /\ auto.pc = "yield"
    /\ stopped' = TRUE
    /\ auto' = [auto EXCEPT !.pc = "done"]
    /\ UNCHANGED <<parserVars, concVars, event, config, req, wake, api_calls, sent, results>>

Next ==
    \/ WakeStart
    \/ WakeGetMsgReturn
    \/ WakeForwardReturn
    \/ AutoStart
    \/ AutoGetMsgReturn
    \/ AutoForwardReturn
    \/ AutoSendReturn
    \/ AutoResume

Spec == Init /\ [][Next]_vars

(***************************************************************************)
(* Two _extract_forward_content calls at once, for two events.  A call     *)
(* gives way wherever it awaits: at call_action (line 100) and at every    *)
(* await of _extract_content_recursively (lines 77 and 110); here it gives *)
(* way after every segment as well, which allows every interleaving the    *)
(* awaits allow.  The parser runs in steps on an explicit stack of its     *)
(* activations, on the list objects of the heap.                           *)
(***************************************************************************)
MaxSwitches == 2

\* Calls that all use the same pair of lists.
shared_lists(p) == 1

\* Lines 95-96: the list objects the call p binds extracted_texts and
\* image_urls to, new ones in every call.
fresh_lists(p) == p

\* What get_forward_msg may answer to a concurrent call.
ConcAnswers ==
    { Raised,
      Returned(PyDict([retcode |-> PyInt(1)])),
      Returned(PyDict([messages |-> PyList(<<PictureNode, PlainNode>>)])),
      Returned(PyDict([messages |-> PyList(<<PlainNode, NodeOf("D", PyStr("[1]"))>>)])),
      Returned(PyDict([messages |->
          PyList(<<NodeOf("A", PyList(<<ForwardSeg(<<PictureNode>>)>>)), PlainNode>>)])) }

\* An activation of _extract_content_recursively: at node i of nodes, at
\* segment k of its content_chain (k = 0: the node is not begun).
Activation(nodes, depth, prefix) ==
    [nodes |-> nodes, i |-> 1, k |-> 0, chain |-> <<>>, parts |-> <<>>, depth |-> depth,
     prefix |-> prefix]

\* Lines 74-77: the segment makes the parser await a nested activation.
awaits_nested(segment) ==
    /\ segment.t = "dict"
    /\ Get(segment, "type", PyNone).t = "str"
    /\ Get(segment, "type", PyNone).s = "forward"
    /\ Get(segment, "data", EmptyDict).t = "dict"
    /\ Get(Get(segment, "data", EmptyDict), "content", PyNone).t = "list"

\* The stack with its innermost activation replaced.
WithTop(stack, top) == [stack EXCEPT ![Len(stack)] = top]

\* Lines 94-100: the lists are created and get_forward_msg is awaited.
ConcBegin(p) ==
    /\ calls[p].pc = "begin"
    /\ calls' = [calls EXCEPT ![p].pc = "get_forward_msg", ![p].lists = fresh_lists(p)]
    /\ heap' = [heap EXCEPT ![fresh_lists(p)] = EmptyAcc]
    /\ UNCHANGED <<parserVars, handlerVars, last, switches>>

\* Lines 100-110: get_forward_msg answers; the call returns two empty lists
\* (lines 103, 107) or enters the parser (line 110).
ConcAnswer(p) ==
    /\ calls[p].pc = "get_forward_msg"
    /\ \E answer \in ConcAnswers :
           calls' = [calls EXCEPT
               ![p] = IF \/ answer.raised
                         \/ ~Truthy(answer.val)
                         \/ "messages" \notin DOMAIN answer.val.map
                      THEN [@ EXCEPT !.pc = "done", !.answer = answer, !.result = NoContent]
                      ELSE [@ EXCEPT !.pc = "walk", !.answer = answer,
                                     !.stack = <<Activation(answer.val.map["messages"].items,
                                                            0, <<>>)>>]]
    /\ UNCHANGED <<parserVars, handlerVars, heap, last, switches>>

\* Line 33 at the end of message_nodes: the activation returns, the outermost
\* one to line 112.
walk_return(p, call, acc) ==
    /\ calls' = [calls EXCEPT
           ![p] = IF Len(call.stack) = 1
                  THEN [call EXCEPT !.pc = "done", !.stack = <<>>, !.result = content_of(acc)]
                  ELSE [call EXCEPT !.stack = SubSeq(call.stack, 1, Len(call.stack) - 1)]]
    /\ UNCHANGED heap

\* Lines 34-58: the node is begun, with chain its content_chain.
walk_begin(p, call, top, chain) ==
    /\ calls' = [calls EXCEPT
           ![p] = IF node_raises(top.nodes[top.i]) \/ chain_raises(chain)
                  THEN [call EXCEPT !.pc = "raised"]
                  ELSE [call EXCEPT !.stack = WithTop(call.stack,
                                        [top EXCEPT !.k = 1, !.chain = chain, !.parts = <<>>])]]
    /\ UNCHANGED heap

\* Lines 83-88: the node is done, which left the lists as acc.
walk_emit(p, call, top, acc) ==
    /\ calls' = [calls EXCEPT
           ![p] = IF acc.raised THEN [call EXCEPT !.pc = "raised"]
                  ELSE [call EXCEPT !.stack = WithTop(call.stack,
                                        [top EXCEPT !.i = top.i + 1, !.k = 0])]]
    /\ heap' = [heap EXCEPT ![call.lists] = [acc EXCEPT !.raised = FALSE]]

\* Lines 74-77: a nested activation is entered.
walk_nest(p, call, top) ==
    /\ calls' = [calls EXCEPT
           ![p].stack = Append(WithTop(call.stack, [top EXCEPT !.k = top.k + 1]),
                            Activation(
                                Get(Get(top.chain[top.k], "data", EmptyDict), "content",
                                    PyNone).items,
                                top.depth + 1, top.prefix \o <<top.i, top.k>>))]
    /\ UNCHANGED heap

\* Lines 61-81: a segment that nests nothing, which left r.
walk_segment(p, call, top, r) ==
    /\ calls' = [calls EXCEPT
           ![p] = IF r.acc.raised THEN [call EXCEPT !.pc = "raised"]
                  ELSE [call EXCEPT !.stack = WithTop(call.stack,
                                        [top EXCEPT !.k = top.k + 1, !.parts = r.parts])]]
    /\ heap' = [heap EXCEPT ![call.lists] = [r.acc EXCEPT !.raised = FALSE]]

\* One step of the innermost activation top, on the lists acc.
walk_step(p, call, top, acc) ==
    IF top.i > Len(top.nodes) THEN walk_return(p, call, acc)
    ELSE IF top.k = 0
    THEN walk_begin(p, call, top, content_chain(raw_content(top.nodes[top.i])))
    ELSE IF top.k > Len(top.chain)
    THEN walk_emit(p, call, top,
             node_line(top.nodes[top.i], top.chain, top.parts, acc, top.depth,
                 top.prefix \o <<top.i>>))
    ELSE IF awaits_nested(top.chain[top.k]) THEN walk_nest(p, call, top)
    ELSE walk_segment(p, call, top,
             segment_step(top.chain[top.k], top.k, top.parts, acc, top.depth,
                 top.prefix \o <<top.i>>))

\* Lines 33-88 and 110-112: the call p takes one step of its walk.
ConcStep(p) ==
    /\ calls[p].pc = "walk"
    /\ walk_step(p, calls[p], calls[p].stack[Len(calls[p].stack)], heap[calls[p].lists])
    /\ last' = p
    /\ switches' = IF last \notin {0, p} /\ switches < MaxSwitches THEN switches + 1
                   ELSE switches
    /\ UNCHANGED <<parserVars, handlerVars>>

InitConc ==
    /\ ParserIdle
    /\ HandlersIdle
    /\ calls = [p \in Invocations |-> [IdleCall EXCEPT !.pc = "begin"]]
    /\ heap = [id \in Invocations |-> EmptyAcc]
    /\ last = 0
    /\ switches = 0

NextConc == \E p \in Invocations : ConcBegin(p) \/ ConcAnswer(p) \/ ConcStep(p)

SpecConc == InitConc /\ [][NextConc]_vars

(***************************************************************************)
(* Vocabulary of the parser's properties: the tree as the recursion sees   *)
(* it, walked independently of the accumulators.                           *)
(***************************************************************************)
SegsOf(node) == content_chain(raw_content(node))

SegType(seg) == IF seg.t = "dict" THEN Get(seg, "type", PyNone) ELSE PyNone
SegData(seg) == IF seg.t = "dict" THEN Get(seg, "data", EmptyDict) ELSE EmptyDict

\* A forward segment that carries a list of nested nodes.
IsListForward(seg) ==
    SegType(seg) = PyStr("forward") /\ Get(SegData(seg), "content", PyNone).t = "list"

\* A forward segment whose nested content is present but is not a list.
IsMalformedForward(seg) ==
    /\ SegType(seg) = PyStr("forward")
    /\ "content" \in DOMAIN SegData(seg).map
    /\ SegData(seg).map["content"].t # "list"

NestedNodes(seg) == Get(SegData(seg), "content", PyNone).items

\* The node's segment list is one forward segment and nothing else.
SoleForward(node) == Len(SegsOf(node)) = 1 /\ SegType(SegsOf(node)[1]) = PyStr("forward")

\* The paths of all nodes of the tree under nodes.
RECURSIVE NodePaths(_, _)
NodePaths(nodes, prefix) ==
    UNION { {prefix \o <<i>>} \cup
            UNION { IF IsListForward(SegsOf(nodes[i])[k])
                    THEN NodePaths(NestedNodes(SegsOf(nodes[i])[k]), prefix \o <<i, k>>)
                    ELSE {} : k \in 1..Len(SegsOf(nodes[i])) } :
            i \in 1..Len(nodes) }

RECURSIVE NodeAt(_, _)
NodeAt(nodes, p) ==
    IF Len(p) = 1 THEN nodes[p[1]]
    ELSE NodeAt(NestedNodes(SegsOf(nodes[p[1]])[p[2]]), SubSeq(p, 3, Len(p)))

AllNodePaths == NodePaths(message_nodes, <<>>)
TheNode(p) == NodeAt(message_nodes, p)

\* Nesting depth of the node at path p: 0 for a root node.
DepthOf(p) == (Len(p) - 1) \div 2

\* The deepest nesting in the input, 0 for a flat or empty list.
NestingDepth ==
    IF AllNodePaths = {} THEN 0
    ELSE CHOOSE d \in {DepthOf(p) : p \in AllNodePaths} :
             \A p \in AllNodePaths : DepthOf(p) <= d

\* The paths of the image segments that carry a URL.
ImagePaths ==
    UNION { { p \o <<k>> : k \in { k \in 1..Len(SegsOf(TheNode(p))) :
                  /\ SegType(SegsOf(TheNode(p))[k]) = PyStr("image")
                  /\ Truthy(Get(SegData(SegsOf(TheNode(p))[k]), "url", PyNone)) } } :
            p \in AllNodePaths }

\* p is a proper prefix of q
ProperPrefix(p, q) == Len(p) < Len(q) /\ SubSeq(q, 1, Len(p)) = p

\* p and q part ways at some position, and p goes left there
BranchesLeft(p, q) ==
    \E d \in 1..Len(p) :
        /\ d <= Len(q)
        /\ SubSeq(p, 1, d - 1) = SubSeq(q, 1, d - 1)
        /\ p[d] < q[d]

NodeHasText(node) ==
    \E k \in 1..Len(SegsOf(node)) :
        /\ SegType(SegsOf(node)[k]) = PyStr("text")
        /\ strip(Get(SegData(SegsOf(node)[k]), "text", PyStr("")).s) # ""

Lines(p) == {k \in 1..Len(parsed.texts) : parsed.tsrc[k] = p}

(***************************************************************************)
(* C1.  A node whose segment list is exactly one forward segment gets no   *)
(* transcript line of its own; when that segment carries a list of nested  *)
(* nodes, each nested node's line begins with the indent of depth + 1      *)
(* followed by its sender, and a nested node that has text has its line.   *)
(***************************************************************************)
C1_PureForwardContainer ==
    (parse_pc = "done" /\ ~parsed.raised) =>
        \A p \in AllNodePaths :
            SoleForward(TheNode(p)) =>
                /\ Lines(p) = {}
                /\ IsListForward(SegsOf(TheNode(p))[1]) =>
                     \A j \in 1..Len(NestedNodes(SegsOf(TheNode(p))[1])) :
                         LET q == p \o <<1, j>>
                             head == Indent(DepthOf(p) + 1) \o sender_name(TheNode(q)) \o ": "
                         IN  /\ \A k \in Lines(q) : StartsWithAt(parsed.texts[k], 1, head)
                             /\ NodeHasText(TheNode(q)) => Lines(q) # {}

\* A pure forward container nested one level down whose child has its line, and
\* a pure forward container whose forward is malformed and so would have had text.
C1_Witness ==
    /\ parse_pc = "done"
    /\ ~parsed.raised
    /\ \E p \in AllNodePaths :
           /\ DepthOf(p) = 1
           /\ SoleForward(TheNode(p))
           /\ IsListForward(SegsOf(TheNode(p))[1])
           /\ Lines(p \o <<1, 1>>) # {}

(***************************************************************************)
(* C2.  Every node with a forward segment whose nested content is present  *)
(* but not a list gets a transcript line that contains the placeholder,    *)
(* also when that forward segment is the node's only segment.              *)
(***************************************************************************)
C2_MalformedForwardLine ==
    (parse_pc = "done" /\ ~parsed.raised) =>
        \A p \in AllNodePaths :
            (\E k \in 1..Len(SegsOf(TheNode(p))) : IsMalformedForward(SegsOf(TheNode(p))[k]))
                => \E m \in Lines(p) : Contains(parsed.texts[m], FwdMissingPlaceholder)

(***************************************************************************)
(* C3.  There is a depth bound such that an input nested deeper than the   *)
(* bound ends with the empty (transcript, images) pair.  The bound ranges  *)
(* over the depths the inputs can exceed.                                  *)
(***************************************************************************)
C3_RecursionGuard ==
    \E bound \in 0..(MaxDepth - 1) :
        (parse_pc = "done" /\ ~parsed.raised /\ NestingDepth > bound)
            => (parsed.texts = <<>> /\ parsed.images = <<>>)

(***************************************************************************)
(* C4.  A root node whose raw content is a non-blank string that is not    *)
(* JSON, or is JSON for something other than a list, gets the line         *)
(* "{indent}{sender_name}: {stripped string}".                             *)
(***************************************************************************)
C4_StringFallbackLine ==
    (parse_pc = "done" /\ ~parsed.raised) =>
        \A i \in 1..Len(message_nodes) :
            LET raw == raw_content(message_nodes[i])
            IN  (/\ raw.t = "str"
                 /\ strip(raw.s) # ""
                 /\ (~json_loads(raw.s).ok \/ json_loads(raw.s).val.t # "list"))
                    => \E k \in Lines(<<i>>) :
                           parsed.texts[k] =
                               FormatLine(0, sender_name(message_nodes[i]), strip(raw.s))

(***************************************************************************)
(* C5.  The image list holds exactly the URLs of the image segments of the *)
(* tree, in the order of a depth-first, left-to-right walk: the segment of *)
(* an earlier image branches left of the segment of a later one.           *)
(***************************************************************************)
C5_ImageOrder ==
    (parse_pc = "done" /\ ~parsed.raised) =>
        /\ Len(parsed.isrc) = Len(parsed.images)
        /\ {parsed.isrc[k] : k \in 1..Len(parsed.isrc)} = ImagePaths
        /\ Len(parsed.images) = Cardinality(ImagePaths)
        /\ \A k \in 1..Len(parsed.images) :
               LET p == parsed.isrc[k]
                   seg == SegsOf(TheNode(SubSeq(p, 1, Len(p) - 1)))[p[Len(p)]]
               IN  parsed.images[k] = Get(SegData(seg), "url", PyNone).s
        /\ \A i, j \in 1..Len(parsed.images) :
               i < j => BranchesLeft(parsed.isrc[i], parsed.isrc[j])

\* Three images: one before a forward segment, one nested in it, one after it.
C5_Witness ==
    /\ parse_pc = "done"
    /\ ~parsed.raised
    /\ \E i \in 1..Len(parsed.images) :
           /\ i + 2 <= Len(parsed.images)
           /\ Len(parsed.isrc[i + 1]) = Len(parsed.isrc[i]) + 2
           /\ Len(parsed.isrc[i + 2]) = Len(parsed.isrc[i])
           /\ LET n == Len(parsed.isrc[i]) - 1
              IN  /\ SubSeq(parsed.isrc[i + 1], 1, n) = SubSeq(parsed.isrc[i], 1, n)
                  /\ SubSeq(parsed.isrc[i + 2], 1, n) = SubSeq(parsed.isrc[i], 1, n)

(***************************************************************************)
(* C8.  The transcript is in depth-first append order: of two lines, the   *)
(* earlier one comes from a node nested under the later one's node, or     *)
(* from a node that branches left of it (an earlier sibling, something     *)
(* nested under an earlier sibling, or under an earlier segment of the     *)
(* same parent); a node never has its line before a line nested under it.  *)
(***************************************************************************)
C8_TranscriptOrder ==
    (parse_pc = "done" /\ ~parsed.raised) =>
        /\ Len(parsed.tsrc) = Len(parsed.texts)
        /\ \A i, j \in 1..Len(parsed.texts) :
               i < j => LET p == parsed.tsrc[i]
                            q == parsed.tsrc[j]
                        IN  /\ ~ProperPrefix(p, q)
                            /\ ProperPrefix(q, p) \/ BranchesLeft(p, q)

\* A line nested under node a, then a's own line, then the line of a's next sibling.
C8_Witness ==
    /\ parse_pc = "done"
    /\ ~parsed.raised
    /\ \E i \in 1..Len(parsed.texts) :
           /\ i + 2 <= Len(parsed.texts)
           /\ ProperPrefix(parsed.tsrc[i + 1], parsed.tsrc[i])
           /\ Len(parsed.tsrc[i + 2]) = Len(parsed.tsrc[i + 1])
           /\ BranchesLeft(parsed.tsrc[i + 1], parsed.tsrc[i + 2])

(***************************************************************************)
(* Vocabulary of the handlers' properties                                  *)
(***************************************************************************)
CallsBy(by, action) ==
    {k \in 1..Len(api_calls) : api_calls[k].by = by /\ api_calls[k].action = action}

LlmRequests == {k \in 1..Len(results) : results[k].kind = "request_llm"}

\* The handler's extraction came back with both lists empty.
NothingCameBack(frame) ==
    /\ frame.pc = "done"
    /\ ~frame.raised
    /\ frame.extracted_texts = <<>>
    /\ frame.image_urls = <<>>

(***************************************************************************)
(* C6.  When a handler ends with the extracted transcript and the          *)
(* extracted image list both empty, the LLM is not invoked for the event:  *)
(* wake mode has left req as the framework built it; auto mode has yielded *)
(* no request_llm, has not called stop_event, has sent nothing, and what   *)
(* it yielded is the fixed notice and nothing else, which it did yield if  *)
(* it fetched a forward.                                                   *)
(***************************************************************************)
C6_NoLlmWithoutContent ==
    /\ NothingCameBack(wake) => req = InitialReq(event)
    /\ NothingCameBack(auto) =>
           /\ LlmRequests = {}
           /\ ~stopped
           /\ sent = <<>>
           /\ results \in {<<>>, <<PlainResult(NothingExtracted)>>}
           /\ CallsBy("auto", "get_forward_msg") # {}
                  => results = <<PlainResult(NothingExtracted)>>

\* Wake mode fetched a forward for a request with a question, the fetch
\* failed, and the request is as it was.
C6_Witness ==
    /\ NothingCameBack(wake)
    /\ CallsBy("wake", "get_forward_msg") # {}
    /\ wake.forward_data.raised
    /\ event.message_str # ""
    /\ req = InitialReq(event)

(***************************************************************************)
(* Vocabulary of the reply scan                                            *)
(***************************************************************************)
\* The payload of a "json" segment is a str.
HasPayload(seg) ==
    /\ seg.t = "dict"
    /\ SegType(seg).t = "str"
    /\ SegType(seg).s = "json"
    /\ SegData(seg).t = "dict"
    /\ Get(SegData(seg), "data", PyNone).t = "str"

Payload(seg) == json_loads(replace(Get(SegData(seg), "data", PyNone).s, "&#44;", ","))

\* The decoded payload is an object with app == "com.tencent.multimsg" and
\* config.forward == 1.
RecognizedCard(val) ==
    /\ val.t = "dict"
    /\ Get(val, "app", PyNone).t = "str"
    /\ Get(val, "app", PyNone).s = MultiMsgApp
    /\ Get(val, "config", PyNone).t = "dict"
    /\ Get(Get(val, "config", PyNone), "forward", PyNone).t = "int"
    /\ Get(Get(val, "config", PyNone), "forward", PyNone).n = 1

\* A "json" segment whose payload is not a recognized legacy card.
NotACard(seg) ==
    /\ HasPayload(seg)
    /\ ~Payload(seg).ok \/ ~RecognizedCard(Payload(seg).val)

\* A forward segment with an id.
ForwardWithId(seg) ==
    /\ seg.t = "dict"
    /\ SegType(seg).t = "str"
    /\ SegType(seg).s = "forward"
    /\ SegData(seg).t = "dict"
    /\ Truthy(Get(SegData(seg), "id", PyNone))

\* The frame's handler has scanned the replied-to message: segments that
\* are not cards, then a forward segment with an id, which it has found.
SkipsToForward(frame) ==
    \A k \in 1..Len(reply_chain(frame.original_msg)) :
        (/\ frame.pc \in {"get_forward_msg", "send", "yield", "done"}
         /\ \A j \in 1..(k - 1) : NotACard(reply_chain(frame.original_msg)[j])
         /\ ForwardWithId(reply_chain(frame.original_msg)[k]))
            => /\ frame.forward_id = Get(SegData(reply_chain(frame.original_msg)[k]), "id", PyNone)
               /\ frame.json_extracted_texts = <<>>

(***************************************************************************)
(* C7.  In both handlers, "json" segments of the replied-to message whose  *)
(* payload is not a recognized legacy card (undecodable, no object, or     *)
(* without the app and config.forward == 1) do not end the scan and yield  *)
(* no text: a forward segment that follows them is found.                  *)
(***************************************************************************)
C7_UnrecognizedCardSkipped ==
    /\ SkipsToForward(wake)
    /\ SkipsToForward(auto)

(***************************************************************************)
(* C10.  At most one handler acts on an event.  Without the wake flag,     *)
(* modify_llm_request leaves req alone and calls nothing; with it,         *)
(* on_any_message fetches nothing, sends nothing, yields nothing and does  *)
(* not stop the event.  So req is never changed for an event for which a   *)
(* request_llm is yielded too.                                             *)
(***************************************************************************)
C10_OneHandlerActs ==
    /\ ~event.is_at_or_wake_command =>
           /\ req = InitialReq(event)
           /\ \A k \in 1..Len(api_calls) : api_calls[k].by # "wake"
    /\ event.is_at_or_wake_command =>
           /\ \A k \in 1..Len(api_calls) : api_calls[k].by # "auto"
           /\ sent = <<>>
           /\ results = <<>>
           /\ ~stopped
    /\ ~(req # InitialReq(event) /\ LlmRequests # {})

\* Both analysis modes are on, the event has a forward and wakes the bot:
\* wake mode has injected the content, auto mode has returned at once.
C10_Witness ==
    /\ config.enable_direct_analysis
    /\ config.enable_reply_analysis
    /\ wake.pc = "done"
    /\ auto.pc = "done"
    /\ wake.extracted_texts # <<>>
    /\ req # InitialReq(event)
    /\ results = <<>>

(***************************************************************************)
(* C9.  Under every interleaving of two _extract_forward_content calls, a  *)
(* call that returns has the transcript and the image list it gets when it *)
(* runs alone on the same answer, and a call ends with an exception only   *)
(* if it does so alone.                                                    *)
(***************************************************************************)
C9_IndependentCalls ==
    \A p \in Invocations :
        /\ calls[p].pc = "done" => calls[p].result = extract_forward_content(calls[p].answer)
        /\ calls[p].pc = "raised" => extract_forward_content(calls[p].answer).raised

\* Both calls have returned lines, and their walks took turns.
C9_Witness ==
    /\ switches = MaxSwitches
    /\ \A p \in Invocations :
           /\ calls[p].pc = "done"
           /\ calls[p].result.texts # <<>>
           /\ calls[p].result.images # <<>>

=============================================================================
